---- MODULE Spec2Model ----
(***************************************************************************)
(* State-machine model of DbusMonitor (src/dbusmonitor.py): the registry   *)
(* of tracked D-Bus services (items), the cache index keyed by bus         *)
(* identity (serviceIds), the asynchronous GetValue calls in flight, the   *)
(* signal receivers registered on the connection and the glib idle queue   *)
(* onto which name-owner changes and value-changed notifications are       *)
(* deferred.  One thread runs everything, so every handler is one action;  *)
(* the bus itself (services taking and releasing names, emitting signals,  *)
(* answering calls) is the environment.                                    *)
(***************************************************************************)
EXTENDS Integers, Sequences, FiniteSets, Bags, TLC

VARIABLES
    owner,                \* the bus: service name -> unique name of its owner, or ""
    phase,                \* "subscribed" | "scanning" | "running" | "exited"
    todo,                 \* names of list_names() the constructor still has to scan
    vebusDeviceInstance0, \* constructor argument
    items,                \* self.items: service name -> service record
    serviceIds,           \* self.serviceIds: bus identity -> [name, paths]
    matches,              \* live PropertiesChanged receivers per bus_name
    pending,              \* bag of GetValue calls in flight
    queue,                \* glib idle queue (idle_add), FIFO
    events,               \* number of bus events so far (bounded)
    last,                 \* the handler the last step ran
    fired,                \* owner callbacks the last step invoked, in order
    raised,               \* exception the last step raised, or "none"
    tracked               \* names whose scan returned True and were not removed since

vars == << owner, phase, todo, vebusDeviceInstance0, items, serviceIds, matches,
           pending, queue, events, last, fired, raised, tracked >>

----------------------------------------------------------------------------
\* Bounds of the model.
MaxEvents == 4      \* bus events (owner changes, signals) in one behaviour
MaxQueue == 2       \* deferred items waiting in the idle queue
MaxValue == 1       \* property values are 1..MaxValue, or None

\* Python's None, as a value distinct from every modelled number.
NoneVal == -1
\* The default_value the callers of get_value pass in.
DefaultValue == -2

NoOwner == ""
Ids == {":1.1", ":1.2"}

VebusO1 == << "com", "victronenergy", "vebus", "ttyO1" >>
BatteryO2 == << "com", "victronenergy", "battery", "ttyO2" >>
Settings == << "com", "victronenergy", "settings" >>
Notifications == << "org", "freedesktop", "Notifications" >>
Names == {VebusO1, BatteryO2, Settings, Notifications}

\* The connections that may take a name: either connection for the services of
\* a Schema class, one for the names the monitor ignores.
Connections(name) == IF name \in {Settings, Notifications} THEN {":1.1"} ELSE Ids

\* Values as they travel on the bus: a number, or the invalid value.
WireInvalid == 0
Values == 1..MaxValue
WireValues == Values \cup {WireInvalid}
\* What the read of /DeviceInstance returns: None or an instance number.
DeviceInstanceReplies == {NoneVal, 1}

whentologoptions ==
    << "configChange", "onIntervalAlwaysAndOnEvent", "onIntervalOnlyWhenChanged",
       "onIntervalAlways" >>

\* The Schema handed to the constructor: class prefix -> path -> options.
\* whenToLog "" stands for a path that is fetched but logged in no category.
VebusPaths == ("/Soc" :> [code |-> "soc", whenToLog |-> "onIntervalAlways"])
BatteryPaths == ("/Mode" :> [code |-> "mode", whenToLog |-> ""])
dbusTree == (<< "com", "victronenergy", "vebus" >> :> VebusPaths) @@
            (<< "com", "victronenergy", "battery" >> :> BatteryPaths)

\* The order in which paths.iteritems() yields the paths of a class.
PathOrder == << "/Soc", "/Mode" >>
SchemaPaths == DOMAIN VebusPaths \cup DOMAIN BatteryPaths
\* Paths a service may signal: for each class, its own path and one that the
\* Schema does not list for it.
SignalPaths == SchemaPaths
NoOptions == [code |-> "", whenToLog |-> ""]

----------------------------------------------------------------------------
\* Helpers over Python dicts, as functions with a finite domain.
Put(f, k, v) == [x \in (DOMAIN f) \cup {k} |-> IF x = k THEN v ELSE f[x]]
Drop(f, k) == [x \in (DOMAIN f) \ {k} |-> f[x]]
EmptyDict == [x \in {} |-> 0]

\* '.'.join(serviceName.split('.')[0:3])
ClassPrefix(serviceName) ==
    SubSeq(serviceName, 1, IF Len(serviceName) < 3 THEN Len(serviceName) ELSE 3)

\* name.startswith("com.victronenergy.")
InNamespace(name) ==
    /\ Len(name) >= 3
    /\ name[1] = "com"
    /\ name[2] = "victronenergy"

\* self.dbusTree.get(prefix, None), with None as the empty dict (both are falsy)
TreePaths(serviceName) ==
    IF ClassPrefix(serviceName) \in DOMAIN dbusTree
    THEN dbusTree[ClassPrefix(serviceName)]
    ELSE EmptyDict

----------------------------------------------------------------------------
\* What the bus answers during one scan: the reply to the synchronous read of
\* /DeviceInstance and the paths whose call_async raises at once.
\*   status "ok"             the read returns value (NoneVal: no such property)
\*   status "ServiceUnknown" the service left the bus after get_name_owner
\*   status "Fault"          any other DBusException
SyncFailChoices == {{}, SchemaPaths}
ScanEnvs ==
    [status : {"ok"}, value : DeviceInstanceReplies, syncfail : SyncFailChoices]
    \cup [status : {"ServiceUnknown", "Fault"}, value : {NoneVal}, syncfail : {{}}]

PathsInOrder(paths) == SelectSeq(PathOrder, LAMBDA p : p \in DOMAIN paths)

\* A loop that would append every path to every category.
BucketOfAll(paths, whentolog) == PathsInOrder(paths)

\* service[whentolog] after the loop over paths.iteritems()
Bucket(paths, whentolog) ==
    SelectSeq(PathsInOrder(paths), LAMBDA p : paths[p].whenToLog = whentolog)

\* assert options['whenToLog'] is None or options['whenToLog'] in whentologoptions
\* (holds for every path of dbusTree above)
OptionsValid(paths) ==
    \A p \in DOMAIN paths :
        \/ paths[p].whenToLog = ""
        \/ \E i \in 1..Len(whentologoptions) : paths[p].whenToLog = whentologoptions[i]

\* device_instance = 0 if device_instance is None else int(device_instance)
IntOrZero(reply) == IF reply = NoneVal THEN 0 ELSE reply

\* The vebus.ttyO1 workaround: no bus call, instance 0.
InstanceOverride(serviceName, flag) == serviceName = VebusO1 /\ flag

\* The cache entries written inside the loop: only where call_async raised.
SyncFailEntries(paths, syncfail) ==
    [p \in (DOMAIN paths) \cap syncfail |-> << NoneVal, paths[p] >>]

\* The GetValue calls the loop leaves in flight.
IssuedCalls(serviceId, paths, syncfail) ==
    SetToBag({[serviceId |-> serviceId, path |-> p, options |-> paths[p]] :
                 p \in (DOMAIN paths) \ syncfail})

\* The service record published at the end of a successful scan.
ServiceRecord(serviceId, deviceInstance, paths, match) ==
    [serviceId |-> serviceId,
     deviceInstance |-> deviceInstance,
     match |-> match,
     configChange |-> Bucket(paths, "configChange"),
     onIntervalAlwaysAndOnEvent |-> Bucket(paths, "onIntervalAlwaysAndOnEvent"),
     onIntervalOnlyWhenChanged |-> Bucket(paths, "onIntervalOnlyWhenChanged"),
     onIntervalAlways |-> Bucket(paths, "onIntervalAlways")]

\* self.items[serviceName] = service, the last statement of the try block.
Publish(its, serviceName, service) == Put(its, serviceName, service)

\* Mutant: the assertion is left out.
AlreadyTrackedNever(its, serviceName) == FALSE

\* assert serviceName not in self.items, negated
AlreadyTracked(its, serviceName) == serviceName \in DOMAIN its

\* Mutant: the service is entered in self.items when the scan starts.
ItemsPublishedEarly(its, serviceName) ==
    Put(its, serviceName, ServiceRecord(NoOwner, 0, EmptyDict, 0))

\* self.items while the scan builds the local dict service: untouched.
ItemsDuringScan(its, serviceName) == its

ScanResult(ret, exc, unknown, its, ids, pend, mat) ==
    [ret |-> ret, exc |-> exc, sawUnknown |-> unknown,
     items |-> its, serviceIds |-> ids, pending |-> pend, matches |-> mat]

\* scan_dbus_service(serviceName) run on (its, ids, pend, mat) with the bus
\* owner busOwner of the name and the bus answers env.  ret is "True", "False"
\* or "raise" (with exc the exception).
scan_dbus_service(serviceName, busOwner, flag, env, its, ids, pend, mat) ==
    LET paths == TreePaths(serviceName)
        idx == Put(ids, busOwner, [name |-> serviceName, paths |-> EmptyDict])
    IN  IF DOMAIN paths = {}
        THEN ScanResult("False", "none", FALSE, its, ids, pend, mat)
        ELSE IF AlreadyTracked(its, serviceName)
        THEN ScanResult("raise", "AssertionError", FALSE, its, ids, pend, mat)
        ELSE IF busOwner = NoOwner
        THEN \* get_name_owner raises, outside the try block
             ScanResult("raise", "DBusException", FALSE, its, ids, pend, mat)
        ELSE IF ~InstanceOverride(serviceName, flag) /\ env.status = "ServiceUnknown"
        THEN ScanResult("False", "none", TRUE, ItemsDuringScan(its, serviceName), idx,
                        pend, mat)
        ELSE IF ~InstanceOverride(serviceName, flag) /\ env.status = "Fault"
        THEN ScanResult("raise", "DBusException", FALSE,
                        ItemsDuringScan(its, serviceName), idx, pend, mat)
        ELSE IF ~OptionsValid(paths)
        THEN ScanResult("raise", "AssertionError", FALSE,
                        ItemsDuringScan(its, serviceName), idx, pend, mat)
        ELSE LET device_instance ==
                     IF InstanceOverride(serviceName, flag) THEN 0
                     ELSE IntOrZero(env.value)
                 filled == [idx EXCEPT ![busOwner].paths =
                                SyncFailEntries(paths, env.syncfail)]
                 mat2 == [mat EXCEPT ![serviceName] = @ + 1]
                 service == ServiceRecord(busOwner, device_instance, paths,
                                          mat2[serviceName])
             IN  ScanResult("True", "none", FALSE,
                            Publish(ItemsDuringScan(its, serviceName), serviceName,
                                    service),
                            filled,
                            pend (+) IssuedCalls(busOwner, paths, env.syncfail),
                            mat2)

\* get_device_instance(serviceName); only called for tracked names here.
get_device_instance(its, serviceName) == its[serviceName].deviceInstance

----------------------------------------------------------------------------
\* Deferred items: idle_add(exit_on_error, f, args).  receiver tells which of
\* the receivers a bus signal reached has deferred the item: the first, the
\* second, ...
OwnerItem(name, oldowner, newowner) ==
    [kind |-> "owner", name |-> name, oldowner |-> oldowner, newowner |-> newowner,
     serviceId |-> NoOwner, path |-> "", value |-> NoneVal, options |-> NoOptions,
     receiver |-> 1]
ValueItem(serviceId, path, value, options) ==
    [kind |-> "value", name |-> << >>, oldowner |-> NoOwner, newowner |-> NoOwner,
     serviceId |-> serviceId, path |-> path, value |-> value, options |-> options,
     receiver |-> 1]

\* A receiver that would put its item in front of the waiting ones.
dbus_name_owner_changed_first(q, name, oldowner, newowner) ==
    IF ~InNamespace(name) THEN q
    ELSE << OwnerItem(name, oldowner, newowner) >> \o q

\* dbus_name_owner_changed: drop names outside the namespace, defer the rest.
dbus_name_owner_changed(q, name, oldowner, newowner) ==
    IF ~InNamespace(name) THEN q
    ELSE Append(q, OwnerItem(name, oldowner, newowner))

\* Owner callbacks, as recorded in fired.
Added(name, instance) == [cb |-> "deviceAdded", name |-> name, path |-> "",
                          value |-> NoneVal, instance |-> instance]
Removed(name, instance) == [cb |-> "deviceRemoved", name |-> name, path |-> "",
                            value |-> NoneVal, instance |-> instance]
Changed(name, path, value, instance) ==
    [cb |-> "valueChanged", name |-> name, path |-> path, value |-> value,
     instance |-> instance]

\* exit_on_error (ve_utils): an exception escaping a deferred item ends the
\* process.  Exceptions raised in handlers the bus library calls directly (signal
\* receivers, reply and error handlers) are reported and the loop goes on.
PhaseAfter(exc) == IF exc = "none" THEN "running" ELSE "exited"

----------------------------------------------------------------------------
Init ==
    /\ owner = [n \in Names |-> NoOwner]
    /\ phase = "subscribed"
    /\ todo = {}
    /\ vebusDeviceInstance0 = TRUE
    /\ items = EmptyDict
    /\ serviceIds = EmptyDict
    /\ matches = [n \in Names |-> 0]
    /\ pending = EmptyBag
    /\ queue = << >>
    /\ events = 0
    /\ last = "init"
    /\ fired = << >>
    /\ raised = "none"
    /\ tracked = {}

\* The bus: a name changes owner (appears, vanishes, or passes to another
\* connection).  The NameOwnerChanged receiver only enqueues, so the signal's
\* dispatch is folded into the event.
BusNameOwnerChanged(name, newowner) ==
    /\ phase \in {"subscribed", "scanning", "running"}
    /\ events < MaxEvents
    /\ Len(queue) < MaxQueue
    /\ newowner \in Connections(name) \cup {NoOwner}
    /\ newowner # owner[name]
    /\ owner' = [owner EXCEPT ![name] = newowner]
    /\ queue' = dbus_name_owner_changed(queue, name, owner[name], newowner)
    /\ events' = events + 1
    /\ last' = "dbus_name_owner_changed"
    /\ fired' = << >>
    /\ raised' = "none"
    /\ UNCHANGED << phase, todo, vebusDeviceInstance0, items, serviceIds, matches,
                    pending, tracked >>

\* __init__: serviceNames = self.dbusConn.list_names()
ListNames ==
    /\ phase = "subscribed"
    /\ todo' = {n \in Names : owner[n] # NoOwner}
    /\ phase' = "scanning"
    /\ last' = "list_names"
    /\ fired' = << >>
    /\ raised' = "none"
    /\ UNCHANGED << owner, vebusDeviceInstance0, items, serviceIds, matches, pending,
                    queue, events, tracked >>

\* What one scan does to the monitor and, when the service left the bus during
\* the scan, to the bus and the idle queue.
ScanEffects(serviceName, r, q) ==
    /\ items' = r.items
    /\ serviceIds' = r.serviceIds
    /\ pending' = r.pending
    /\ matches' = r.matches
    /\ raised' = r.exc
    /\ tracked' = IF r.ret = "True" THEN tracked \cup {serviceName} ELSE tracked
    /\ IF r.sawUnknown
       THEN /\ owner' = [owner EXCEPT ![serviceName] = NoOwner]
            /\ queue' = dbus_name_owner_changed(q, serviceName, owner[serviceName],
                                                NoOwner)
            /\ events' = events + 1
       ELSE /\ owner' = owner
            /\ queue' = q
            /\ events' = events

ScanEnvAllowed(env, q) ==
    env.status = "ServiceUnknown" => (events < MaxEvents /\ Len(q) < MaxQueue)

\* A constructor that would announce each service its scan starts tracking.
InitialScanAnnounces(its, serviceName, ret) ==
    IF ret = "True"
    THEN << Added(serviceName, get_device_instance(its, serviceName)) >>
    ELSE << >>

\* __init__ ignores what scan_dbus_service returns and invokes no callback.
InitialScanCallbacks(its, serviceName, ret) == << >>

\* __init__: one turn of "for serviceName in serviceNames: scan_dbus_service"
InitialScan(serviceName, env) ==
    /\ phase = "scanning"
    /\ serviceName \in todo
    /\ ScanEnvAllowed(env, queue)
    /\ LET r == scan_dbus_service(serviceName, owner[serviceName],
                                  vebusDeviceInstance0, env, items, serviceIds,
                                  pending, matches)
       IN  /\ ScanEffects(serviceName, r, queue)
           /\ phase' = IF r.ret = "raise" THEN "exited" ELSE "scanning"
           /\ fired' = InitialScanCallbacks(r.items, serviceName, r.ret)
    /\ todo' = todo \ {serviceName}
    /\ last' = "scan_dbus_service"
    /\ UNCHANGED << vebusDeviceInstance0 >>

\* __init__ returns; the main loop starts.
InitDone ==
    /\ phase = "scanning"
    /\ todo = {}
    /\ phase' = "running"
    /\ last' = "init_done"
    /\ fired' = << >>
    /\ raised' = "none"
    /\ UNCHANGED << owner, todo, vebusDeviceInstance0, items, serviceIds, matches,
                    pending, queue, events, tracked >>

\* _process_name_owner_changed, newowner != '': scan, then device-added.
ProcessAppeared(env) ==
    /\ phase = "running"
    /\ queue # << >>
    /\ Head(queue).kind = "owner"
    /\ Head(queue).newowner # NoOwner
    /\ ScanEnvAllowed(env, Tail(queue))
    /\ LET name == Head(queue).name
           r == scan_dbus_service(name, owner[name], vebusDeviceInstance0, env,
                                  items, serviceIds, pending, matches)
       IN  /\ ScanEffects(name, r, Tail(queue))
           /\ phase' = PhaseAfter(r.exc)
           /\ fired' = IF r.ret = "True"
                       THEN << Added(name, get_device_instance(r.items, name)) >>
                       ELSE << >>
    /\ last' = "process_appeared"
    /\ UNCHANGED << todo, vebusDeviceInstance0 >>

\* del self.serviceIds[self.items[name]['serviceId']]: KeyError when the index
\* entry is gone.
RemovalRaises(its, ids, name) == its[name].serviceId \notin DOMAIN ids

\* _process_name_owner_changed, newowner == '': remove the service if tracked.
ProcessVanished ==
    /\ phase = "running"
    /\ queue # << >>
    /\ Head(queue).kind = "owner"
    /\ Head(queue).newowner = NoOwner
    /\ LET name == Head(queue).name
       IN  IF name \notin DOMAIN items
           THEN /\ UNCHANGED << items, serviceIds, tracked, phase >>
                /\ fired' = << >>
                /\ raised' = "none"
           ELSE IF RemovalRaises(items, serviceIds, name)
           THEN /\ UNCHANGED << items, serviceIds, tracked >>
                /\ fired' = << >>
                /\ raised' = "KeyError"
                /\ phase' = PhaseAfter("KeyError")
           ELSE /\ serviceIds' = Drop(serviceIds, items[name].serviceId)
                /\ items' = Drop(items, name)
                /\ tracked' = tracked \ {name}
                /\ fired' = << Removed(name, items[name].deviceInstance) >>
                /\ raised' = "none"
                /\ UNCHANGED phase
    /\ queue' = Tail(queue)
    /\ last' = "process_vanished"
    /\ UNCHANGED << owner, todo, vebusDeviceInstance0, matches, pending, events >>

\* The receivers a PropertiesChanged signal of connection senderId reaches: one
\* per add_signal_receiver(bus_name = n) with n currently owned by senderId.
RECURSIVE SumMatches(_, _)
SumMatches(mat, names) ==
    IF names = {} THEN 0
    ELSE LET n == CHOOSE x \in names : TRUE
         IN  mat[n] + SumMatches(mat, names \ {n})
Receivers(senderId) == SumMatches(matches, {n \in Names : owner[n] = senderId})

\* The items k receivers defer for one signal, in the order they are called.
Copies(item, k) == [i \in 1..k |-> [item EXCEPT !.receiver = i]]

\* unwrap_dbus_value: the Python value of a bus value; the invalid value is None.
unwrap_dbus_value(value) == IF value = WireInvalid THEN NoneVal ELSE value

\* handler_value_changes(changes, path, senderId), one invocation, on the index
\* ids: what it raises, the index after it, and whether it defers a notification.
handler_value_changes(ids, value, path, senderId) ==
    IF senderId \notin DOMAIN ids
    THEN [exc |-> "KeyError", serviceIds |-> ids, deferred |-> FALSE]
    ELSE IF path \notin DOMAIN ids[senderId].paths
    THEN [exc |-> "none", serviceIds |-> ids, deferred |-> FALSE]
    ELSE [exc |-> "none",
          serviceIds |-> [ids EXCEPT ![senderId].paths[path][1] =
                              unwrap_dbus_value(value)],
          deferred |-> TRUE]

\* The bus delivers a PropertiesChanged signal of a connection that owns a name
\* with a receiver; every receiver it matches runs handler_value_changes.
BusSignal(senderId, path, value) ==
    /\ phase = "running"
    /\ events < MaxEvents
    /\ Receivers(senderId) >= 1
    /\ Len(queue) + Receivers(senderId) <= MaxQueue
    /\ LET h == handler_value_changes(serviceIds, value, path, senderId)
       IN  /\ serviceIds' = h.serviceIds
           /\ raised' = h.exc
           /\ queue' = IF h.deferred
                       THEN queue \o Copies(ValueItem(senderId, path, value,
                                                serviceIds[senderId].paths[path][2]),
                                            Receivers(senderId))
                       ELSE queue
    /\ events' = events + 1
    /\ last' = "handler_value_changes"
    /\ fired' = << >>
    /\ UNCHANGED << owner, phase, todo, vebusDeviceInstance0, items, matches,
                    pending, tracked >>

\* _execute_value_changes(serviceId, objectPath, changes, options)
ProcessValue ==
    /\ phase = "running"
    /\ queue # << >>
    /\ Head(queue).kind = "value"
    /\ LET it == Head(queue)
       IN  IF it.serviceId \notin DOMAIN serviceIds
           THEN /\ fired' = << >>
                /\ raised' = "none"
                /\ UNCHANGED phase
           ELSE LET serviceName == serviceIds[it.serviceId].name
                IN  IF serviceName \notin DOMAIN items
                    THEN /\ fired' = << >>
                         /\ raised' = "KeyError"
                         /\ phase' = PhaseAfter("KeyError")
                    ELSE /\ fired' = << Changed(serviceName, it.path, it.value,
                                          get_device_instance(items, serviceName)) >>
                         /\ raised' = "none"
                         /\ UNCHANGED phase
    /\ queue' = Tail(queue)
    /\ last' = "execute_value_changes"
    /\ UNCHANGED << owner, todo, vebusDeviceInstance0, items, serviceIds, matches,
                    pending, events, tracked >>

\* _set_value_callback / _set_value_error: the write both completions make.
set_value_entry(ids, serviceId, path, options, value) ==
    IF serviceId \notin DOMAIN ids
    THEN [exc |-> "KeyError", serviceIds |-> ids]
    ELSE [exc |-> "none",
          serviceIds |-> [ids EXCEPT ![serviceId].paths =
                              Put(@, path, << value, options >>)]]

FetchDone(call, value, handler) ==
    /\ phase = "running"
    /\ BagIn(call, pending)
    /\ pending' = pending (-) SetToBag({call})
    /\ LET w == set_value_entry(serviceIds, call.serviceId, call.path, call.options,
                                value)
       IN  /\ serviceIds' = w.serviceIds
           /\ raised' = w.exc
    /\ last' = handler
    /\ fired' = << >>
    /\ UNCHANGED << owner, phase, todo, vebusDeviceInstance0, items, matches, queue,
                    events, tracked >>

\* A GetValue call returns: _set_value_callback(serviceId, path, options, value)
FetchReply(call, value) == FetchDone(call, unwrap_dbus_value(value), "set_value_callback")

\* A GetValue call fails: _set_value_error(serviceId, path, options, *args)
FetchError(call) == FetchDone(call, NoneVal, "set_value_error")

Next ==
    \/ \E n \in Names, o \in Ids \cup {NoOwner} : BusNameOwnerChanged(n, o)
    \/ ListNames
    \/ \E n \in Names, env \in ScanEnvs : InitialScan(n, env)
    \/ InitDone
    \/ \E env \in ScanEnvs : ProcessAppeared(env)
    \/ ProcessVanished
    \/ \E id \in Ids, p \in SignalPaths, v \in WireValues : BusSignal(id, p, v)
    \/ ProcessValue
    \/ \E c \in BagToSet(pending), v \in WireValues : FetchReply(c, v)
    \/ \E c \in BagToSet(pending) : FetchError(c)

Spec == Init /\ [][Next]_vars

----------------------------------------------------------------------------
\* The read API, on a registry its and a cache index ids.

\* get_value(serviceName, objectPath, default_value): what it raises and returns.
get_value(its, ids, serviceName, objectPath, default_value) ==
    IF serviceName \notin DOMAIN its
    THEN [exc |-> "none", ret |-> default_value]
    ELSE IF its[serviceName].serviceId \notin DOMAIN ids
    THEN [exc |-> "KeyError", ret |-> NoneVal]
    ELSE LET paths == ids[its[serviceName].serviceId].paths
         IN  IF objectPath \notin DOMAIN paths
             THEN [exc |-> "none", ret |-> default_value]
             ELSE [exc |-> "none", ret |-> paths[objectPath][1]]

\* classfilter None
NoFilter == << >>

\* get_service_list(classfilter): service name -> device instance
get_service_list(its, classfilter) ==
    [n \in {m \in DOMAIN its :
                classfilter = NoFilter \/ ClassPrefix(m) = ClassPrefix(classfilter)}
        |-> get_device_instance(its, n)]

Returned(value) == [exc |-> "none", ret |-> value]

----------------------------------------------------------------------------
\* C1: get_value returns the cached value, and returns the caller's default
\* when the service is not tracked, when the path has no cache entry, and when
\* the cached value is None.
C1_GetValueDefaults ==
    \A n \in Names, p \in SchemaPaths :
        LET g == get_value(items, serviceIds, n, p, DefaultValue)
        IN  /\ n \notin DOMAIN items => g = Returned(DefaultValue)
            /\ (n \in DOMAIN items /\ items[n].serviceId \in DOMAIN serviceIds) =>
                  LET paths == serviceIds[items[n].serviceId].paths
                  IN  /\ p \notin DOMAIN paths => g = Returned(DefaultValue)
                      /\ (p \in DOMAIN paths /\ paths[p][1] = NoneVal)
                             => g = Returned(DefaultValue)
                      /\ (p \in DOMAIN paths /\ paths[p][1] # NoneVal)
                             => g = Returned(paths[p][1])

\* C2: in every reachable state the names in the registry are exactly the names
\* whose scan returned True and that were not removed since; a name whose scan
\* was aborted is not in the registry.
C2_RegistryIffScanned == DOMAIN items = tracked

\* A state in which one service is tracked while the aborted scan of another
\* has left its index entry behind.
C2_Witness ==
    \E n \in tracked, m \in Names \ tracked :
        /\ m \notin DOMAIN items
        /\ \E id \in DOMAIN serviceIds : serviceIds[id].name = m

\* C3: every tracked service has a cache entry (value possibly None) for every
\* Schema path of its class, from the moment the scan returns True.
C3_SchemaPathsCached ==
    \A n \in DOMAIN items :
        /\ items[n].serviceId \in DOMAIN serviceIds
        /\ \A p \in DOMAIN TreePaths(n) :
               p \in DOMAIN serviceIds[items[n].serviceId].paths

\* C4: once the deferred 'vanished' item of a tracked service has run, the
\* service is not in get_service_list() and get_value returns the default for
\* each of its paths.
C4_RemovedServiceGone ==
    [][(ProcessVanished /\ Head(queue).name \in DOMAIN items) =>
          LET n == Head(queue).name
          IN  /\ n \notin DOMAIN get_service_list(items', NoFilter)
              /\ \A p \in SchemaPaths :
                     get_value(items', serviceIds', n, p, DefaultValue)
                         = Returned(DefaultValue)]_vars

\* C5: a 'vanished' item for a tracked service fires exactly one device-removed
\* callback, with the service's name and device instance; for a name that is
\* not tracked it fires none.
C5_OneRemovedCallback ==
    [][ProcessVanished =>
          LET n == Head(queue).name
          IN  IF n \in DOMAIN items
              THEN fired' = << Removed(n, items[n].deviceInstance) >>
              ELSE fired' = << >>]_vars

\* C6: a fetch completion (reply or error) whose bus identity is no longer in
\* the index is discarded: it raises nothing and leaves the cache as it is.
C6_StaleCompletionDiscarded ==
    [][\A c \in BagToSet(pending) :
          (/\ c.serviceId \notin DOMAIN serviceIds
           /\ (FetchError(c) \/ \E v \in WireValues : FetchReply(c, v)))
          => (raised' = "none" /\ serviceIds' = serviceIds)]_vars

\* C7: a PropertiesChanged signal whose (sender, path) has no cache entry, also
\* one whose sender is not in the index at all, is dropped: nothing is raised,
\* registry and cache stay as they are and nothing is deferred.
C7_UnknownSignalDropped ==
    [][\A id \in Ids, p \in SignalPaths, v \in WireValues :
          (/\ BusSignal(id, p, v)
           /\ (id \notin DOMAIN serviceIds \/ p \notin DOMAIN serviceIds[id].paths))
          => (raised' = "none" /\ UNCHANGED << items, serviceIds, queue >>)]_vars

\* C8: after a PropertiesChanged signal with value v for a Schema path of a
\* tracked service, get_value for that service and path returns v, before the
\* deferred notification has run.
C8_SignalValueVisible ==
    [][\A id \in Ids, p \in SignalPaths, v \in WireValues :
          BusSignal(id, p, v) =>
              \A n \in DOMAIN items :
                  (items[n].serviceId = id /\ owner[n] = id /\ p \in DOMAIN TreePaths(n))
                  => get_value(items', serviceIds', n, p, DefaultValue)
                         = Returned(unwrap_dbus_value(v))]_vars

VanishedItemRuns == queue # << >> /\ last' = "process_vanished" /\ queue' = Tail(queue)
AppearedItemRuns == queue # << >> /\ last' = "process_appeared" /\ queue' # queue

C10_VanishedScanAborts ==
    [][\A n \in Names, env \in ScanEnvs :
          (/\ InitialScan(n, env) \/ (ProcessAppeared(env) /\ Head(queue).name = n)
           /\ DOMAIN TreePaths(n) # {}
           /\ n \notin DOMAIN items
           /\ (owner[n] = NoOwner \/ owner'[n] = NoOwner))
          => (/\ raised' = "none"
              /\ n \notin DOMAIN items'
              /\ fired' = << >>)]_vars

\* C11: removing a tracked service releases its PropertiesChanged receiver: in
\* every reachable state each tracked service has exactly one registered
\* receiver and a name that is not tracked has none.
C11_OneSubscriptionPerTracked ==
    \A n \in Names : matches[n] = IF n \in DOMAIN items THEN 1 ELSE 0

\* s is an initial segment of t.
IsPrefix(s, t) == Len(s) <= Len(t) /\ SubSeq(t, 1, Len(s)) = s

\* cb is the callback that running the deferred item it invokes.
DeliveredFor(cb, it) ==
    IF it.kind = "value"
    THEN cb.cb = "valueChanged" /\ cb.path = it.path /\ cb.value = it.value
    ELSE /\ cb.name = it.name
         /\ cb.cb = IF it.newowner = NoOwner THEN "deviceRemoved" ELSE "deviceAdded"

\* C12: deferred items run strictly in the order they were enqueued: every step
\* either only appends to the waiting items or takes the oldest one and appends
\* behind the rest, and a step that invokes a callback invokes exactly one, the
\* one of the oldest waiting item; so callbacks come in the order of the bus
\* events that enqueued them.
C12_DeferredFifo ==
    [][/\ \/ IsPrefix(queue, queue')
          \/ (queue # << >> /\ IsPrefix(Tail(queue), queue'))
       /\ fired' # << >> =>
              /\ queue # << >>
              /\ IsPrefix(Tail(queue), queue')
              /\ Len(fired') = 1
              /\ DeliveredFor(fired'[1], Head(queue))]_vars

\* The callback of the oldest item was delivered while the item of a later bus
\* event is still waiting.
C12_Witness ==
    /\ fired # << >>
    /\ queue # << >>
    /\ last \in {"process_appeared", "process_vanished", "execute_value_changes"}

\* C13: a callback (value-changed, device-added, device-removed) is invoked only
\* by a step in which the idle queue's consumer runs a deferred item, never by
\* a receiver the bus calls (dbus_name_owner_changed, handler_value_changes, a
\* fetch completion) and never by the constructor's initial scan.
C13_CallbacksOnlyDeferred ==
    fired # << >> =>
        last \in {"process_appeared", "process_vanished", "execute_value_changes"}

\* The consumer has just delivered a value-changed callback.
C13_Witness ==
    /\ last = "execute_value_changes"
    /\ \E i \in 1..Len(fired) : fired[i].cb = "valueChanged"

----------------------------------------------------------------------------
\* The write API.

\* What a DbusMonitor object has: the methods of the class and the fields
\* __init__ sets.
Attributes ==
    {"__init__", "dbus_name_owner_changed", "_process_name_owner_changed",
     "_set_value_callback", "_set_value_error", "scan_dbus_service",
     "handler_value_changes", "_execute_value_changes", "get_value", "set_value",
     "get_service_list", "get_device_instance", "get_values",
     "get_values_for_service", "items", "serviceIds", "dbusTree",
     "valueChangedCallback", "deviceAddedCallback", "deviceRemovedCallback",
     "vebusDeviceInstance0", "dbusConn"}

\* return -1
SetValueFailed == -1

\* set_value(serviceName, objectPath, value): what it raises and returns.  Its
\* first statement calls self.get_item; with no such attribute the call raises
\* before the registry or the cache is read.  Were there one, finding no item
\* would return -1.
set_value(its, ids, serviceName, objectPath, value) ==
    IF "get_item" \notin Attributes
    THEN [exc |-> "AttributeError", ret |-> NoneVal]
    ELSE Returned(SetValueFailed)

\* C14: once the monitor runs, set_value for a service that is not tracked, or
\* for a path that is not a Schema path of the service, returns -1 and raises
\* nothing.
C14_SetValueSentinel ==
    phase = "running" =>
        \A n \in Names, p \in SchemaPaths, v \in Values :
            (n \notin DOMAIN items \/ p \notin DOMAIN TreePaths(n))
            => set_value(items, serviceIds, n, p, v) = Returned(SetValueFailed)

----------------------------------------------------------------------------
\* get_values and get_values_for_service (no converter; the options of
\* dbusTree carry no precision).

\* options['code'] + "[" + str(deviceInstance) + "]"
ValueKey(code, deviceInstance) == code \o "[" \o ToString(deviceInstance) \o "]"

\* try: value, options = self.serviceIds[service['serviceId']]['paths'][path]
\* except KeyError: value = options = None
CachedOrNone(ids, serviceId, path) ==
    IF serviceId \in DOMAIN ids /\ path \in DOMAIN ids[serviceId].paths
    THEN ids[serviceId].paths[path]
    ELSE << NoneVal, NoOptions >>

\* for path in service[category]: ... result[key] = value
RECURSIVE CollectPaths(_, _, _, _, _)
CollectPaths(result, ids, service, deviceInstance, pathseq) ==
    IF pathseq = << >> THEN result
    ELSE LET e == CachedOrNone(ids, service.serviceId, Head(pathseq))
             r == IF e[1] # NoneVal
                  THEN Put(result, ValueKey(e[2].code, deviceInstance), e[1])
                  ELSE result
         IN  CollectPaths(r, ids, service, deviceInstance, Tail(pathseq))

\* for category in categoryfilter: ...
RECURSIVE CollectCategories(_, _, _, _, _)
CollectCategories(result, ids, service, deviceInstance, categoryfilter) ==
    IF categoryfilter = << >> THEN result
    ELSE CollectCategories(
             CollectPaths(result, ids, service, deviceInstance,
                          service[Head(categoryfilter)]),
             ids, service, deviceInstance, Tail(categoryfilter))

\* get_values_for_service(categoryfilter, servicename): key -> value
get_values_for_service(its, ids, categoryfilter, servicename) ==
    CollectCategories(EmptyDict, ids, its[servicename],
                      get_device_instance(its, servicename), categoryfilter)

\* result.update(...) for each service of names, in the dictionary's order
RECURSIVE UpdateFrom(_, _, _, _, _)
UpdateFrom(result, its, ids, categoryfilter, names) ==
    IF names = {} THEN result
    ELSE LET n == CHOOSE x \in names : TRUE
             r == get_values_for_service(its, ids, categoryfilter, n)
         IN  UpdateFrom(r @@ result, its, ids, categoryfilter, names \ {n})

\* get_values(categoryfilter): key -> value
get_values(its, ids, categoryfilter) ==
    UpdateFrom(EmptyDict, its, ids, categoryfilter, DOMAIN its)

\* The category filters asked for.
CategoryFilters ==
    { << >>, << "onIntervalAlways" >>, << "configChange" >>,
      << "configChange", "onIntervalAlways" >> }

Elements(seq) == {seq[i] : i \in 1..Len(seq)}

\* The (service, path) pairs the claim puts in get_values(categoryfilter):
\* tracked service, Schema path of its class whose category is asked for,
\* cached value present and not None.
Reported(categoryfilter) ==
    {np \in (DOMAIN items) \X SchemaPaths :
        /\ np[2] \in DOMAIN TreePaths(np[1])
        /\ TreePaths(np[1])[np[2]].whenToLog \in Elements(categoryfilter)
        /\ get_value(items, serviceIds, np[1], np[2], NoneVal).ret # NoneVal}

\* C15: get_values(categories) has an entry for a path of a tracked service
\* exactly when the path's Schema category is in categories and its cached
\* value is present and not None; the entry's key is code[deviceInstance] of
\* that path and service.
C15_GetValuesEntries ==
    \A f \in CategoryFilters :
        LET key(np) == ValueKey(TreePaths(np[1])[np[2]].code,
                                items[np[1]].deviceInstance)
        IN  DOMAIN get_values(items, serviceIds, f) = {key(np) : np \in Reported(f)}

\* One tracked service's value is reported under its key while a tracked
\* service with a cached value in no category asked for is left out.
C15_Witness ==
    /\ DOMAIN get_values(items, serviceIds, << "onIntervalAlways" >>) = {"soc[0]"}
    /\ BatteryO2 \in DOMAIN items
    /\ get_value(items, serviceIds, BatteryO2, "/Mode", NoneVal).ret # NoneVal

\* The step runs the deferred value-changed notification at the head of the queue.
ValueItemRuns ==
    /\ queue # << >>
    /\ Head(queue).kind = "value"
    /\ last' = "execute_value_changes"
    /\ queue' = Tail(queue)

\* The tracked services a notification can have come from: those scanned under
\* its bus identity whose class has its path.
Senders(it) ==
    {n \in DOMAIN items :
        items[n].serviceId = it.serviceId /\ it.path \in DOMAIN TreePaths(n)}

\* C16: when a deferred value-changed notification runs and the service that
\* sent the signal is no longer tracked, no callback is invoked and nothing is
\* raised; when it is still tracked, the callback is invoked once, with that
\* service's name and its current device instance.
C16_NotificationRechecked ==
    [][ValueItemRuns =>
          LET it == Head(queue)
          IN  /\ raised' = "none"
              /\ IF Senders(it) = {}
                 THEN fired' = << >>
                 ELSE \E n \in Senders(it) :
                          fired' = << Changed(n, it.path, it.value,
                                              items[n].deviceInstance) >>]_vars

\* get_values raises KeyError at service[category] for a category that is no
\* key of a service record; the lookups in the cache are guarded by its try.
get_values_raises(its, categoryfilter) ==
    \E n \in DOMAIN its, c \in Elements(categoryfilter) : c \notin DOMAIN its[n]

\* C17: once the monitor runs, get_value, get_values and get_service_list
\* raise nothing, whatever service, path or category filter they are asked for.
\* (get_service_list reads only the registry entries it iterates over.)
C17_ReadsNeverRaise ==
    phase = "running" =>
        /\ \A n \in Names, p \in SchemaPaths :
               get_value(items, serviceIds, n, p, DefaultValue).exc = "none"
        /\ \A f \in CategoryFilters : ~get_values_raises(items, f)
        /\ DOMAIN get_service_list(items, NoFilter) = DOMAIN items

\* C18: once the monitor runs, between handlers (no scan in progress), the bus
\* identities with an entry in the cache index are exactly the serviceId values
\* of the tracked services; a scan that returned False or raised has left no
\* index entry.
C18_IndexMatchesRegistry ==
    phase = "running" =>
        DOMAIN serviceIds = {items[n].serviceId : n \in DOMAIN items}

\* C19: every tracked service has an index entry under its serviceId and that
\* entry carries the service's own name, so no two tracked services share an
\* index entry, also when their names are owned by one connection.
C19_IndexEntryPerService ==
    \A n \in DOMAIN items :
        /\ items[n].serviceId \in DOMAIN serviceIds
        /\ serviceIds[items[n].serviceId].name = n

\* C20: each PropertiesChanged signal of a tracked service for a cached path
\* leads to at most one value-changed callback, whatever disappearances and
\* reappearances came before: of the notifications deferred for one signal only
\* the first receiver's invokes the callback.
C20_OneCallbackPerSignal ==
    [][(ValueItemRuns /\ fired' # << >>) => Head(queue).receiver = 1]_vars

====
